---- MODULE Spec2Model ----
(***************************************************************************)
(* A model of the passenger-demand estimator of AirlineScheduler:          *)
(*   code/demand_functions.py   the module-level demand functions          *)
(*   code/passenger_demand.py   class PassengerDemand                      *)
(*   code/routes.py             Route.get_approximate_pax_demand,          *)
(*                              populate_routes_in_csv,                    *)
(*                              populate_demands_in_csv                    *)
(*   code/helpers.py            gc_distance                                *)
(*   code/worldbank.py,                                                    *)
(*   code/wb_helpers.py         fetch_all_indicators                       *)
(*   code/database_population.py  Database.import_csv                      *)
(*                                                                         *)
(* Numbers.  Python floats are carried as fixed-point integers:            *)
(*   a factor, a multiplier operand      value * Unit  (Unit = 10^Digits)  *)
(*   a composite score                   value * ScoreScale                *)
(*   a base demand                       whole passengers (exact, because  *)
(*                                       DEMAND_SCALING_FACTOR is a        *)
(*                                       multiple of ScoreScale)           *)
(*   a seasonality factor                halves (1.5 is 3)                 *)
(*   a price level index                 tenths (1.1 is 11)                *)
(* Divisions round toward minus infinity at the resolution of the scale;   *)
(* float rounding error itself is not modelled.  The two outcomes of float *)
(* arithmetic that are not numbers, numpy's nan and Python's               *)
(* ZeroDivisionError, are the values NaN and ZeroDivisionError below.      *)
(***************************************************************************)
EXTENDS Integers, Sequences, FiniteSets, TLC

VARIABLES
    call,       \* the last direct call of a function or method: name, arguments, result
    pc,         \* Route estimation: position of the estimation in progress
    routes_csv, \* Route estimation: the distances recorded in data/routes.csv
    args,       \* Route estimation: the codes Route(hub_icao, dest_icao) was given
    route,      \* Route estimation: the Route object (its airports, its distance)
    world,      \* Route estimation: what the indicator providers answer
    lookups,    \* Route estimation: the calls made so far, per provider and of gc_distance
    stats,      \* Route estimation: PassengerDemand.stats
    demand,     \* Route estimation: base demand, seasonality, multipliers and raw demands
    result,     \* Route estimation: the returned triple, or the exception raised
    batch,      \* populate_*_in_csv: the function running, its position and its row
    files,      \* populate_*_in_csv: the destinations, routes and temporary files
    fetch,      \* fetch_all_indicators: the two generators and the pages they yielded
    db          \* Database.import_csv: the table, the CSV file and the import running

vars == <<call, pc, routes_csv, args, route, world, lookups, stats, demand, result,
          batch, files, fetch, db>>

(***************************************************************************)
(* Bounds of the model.                                                    *)
(***************************************************************************)
MaxPop == 2     \* populations are 0, 1000, ..., 1000 * MaxPop
MaxGdp == 2     \* GDPs per capita are 0, 10, 30, ..., 10 * (2 * MaxGdp - 1)
MaxTe == 2      \* tourism expenditures are 0, 500, ..., 500 * MaxTe
MaxCalls == 2   \* get_approximate_pax_demand is called at most MaxCalls times on a Route

PopulationSet == {1000 * k : k \in 0..MaxPop}
GdpSet == {0} \cup {10 * (2 * k - 1) : k \in 1..MaxGdp}
PliSet == {11, 12}
TeSet == {500 * k : k \in 0..MaxTe}
DistanceSet == {0, 100, 200, 500, 700, 1000, 2000, 5000, 10000}
MonthSet == 1..12

(***************************************************************************)
(* Floats.                                                                 *)
(***************************************************************************)
Digits == 3
Unit == 10 ^ Digits

NaN == -2147483647
ZeroDivisionError == -2147483646

IsNumber(x) == x \notin {NaN, ZeroDivisionError}

\* The outcome of an expression over the operands xs, evaluated left to right:
\* an exception raised by an operand ends the evaluation, a nan operand makes
\* the result nan, and otherwise the result is v.
Propagate(xs, v) ==
    IF \E i \in DOMAIN xs : xs[i] = ZeroDivisionError THEN ZeroDivisionError
    ELSE IF \E i \in DOMAIN xs : xs[i] = NaN THEN NaN
    ELSE v

Max2(a, b) == IF a >= b THEN a ELSE b
Min2(a, b) == IF a <= b THEN a ELSE b

RECURSIVE GCD(_, _)
GCD(a, b) == IF b = 0 THEN a ELSE GCD(b, a % b)

\* A rational n/d, d > 0, in lowest terms.
Rat(n, d) == LET g == GCD(n, d) IN IF g = 0 THEN <<n, d>> ELSE <<n \div g, d \div g>>

RECURSIVE LongDiv(_, _, _)
LongDiv(r, d, k) ==
    IF k = 0 THEN 0
    ELSE ((10 * r) \div d) * (10 ^ (k - 1)) + LongDiv((10 * r) % d, d, k - 1)

\* n / d as a float: floor(Unit * n / d), by long division (d > 0).
DivFix(n, d) == (n \div d) * Unit + LongDiv(n % d, d, Digits)

RECURSIVE SqrtSearch(_, _, _)
SqrtSearch(n, lo, hi) ==
    IF lo >= hi THEN lo
    ELSE LET mid == (lo + hi + 1) \div 2
         IN IF mid * mid <= n THEN SqrtSearch(n, mid, hi) ELSE SqrtSearch(n, lo, mid - 1)

\* numpy.sqrt(x), x >= 0, in tenths: floor(10 * sqrt(x)).
Sqrt(x) == SqrtSearch(100 * x, 0, Min2(100 * x, 46340))

\* numpy's float64 division a / b of a (in tenths) by the number b, as a float:
\* 0/0 is nan (a RuntimeWarning, no exception).
NumpyDiv(a, b) == IF b = 0 THEN NaN ELSE DivFix(a, 10 * b)

\* scipy.stats.lognorm.pdf(x, 0.5, scale=1000), in units of 10^-9.
LognormPdf(x) ==
    CASE x = 0 -> 0
      [] x = 100 -> 198
      [] x = 200 -> 22439
      [] x = 500 -> 610455
      [] x = 700 -> 883777
      [] x = 1000 -> 797885
      [] x = 2000 -> 152614
      [] x = 5000 -> 898
      [] x = 10000 -> 2

\* numpy.log(x), x > 0, in thousandths.
Log(x) ==
    CASE x = 100 -> 4605
      [] x = 200 -> 5298
      [] x = 500 -> 6215
      [] x = 700 -> 6551
      [] x = 1000 -> 6908
      [] x = 2000 -> 7601
      [] x = 5000 -> 8517
      [] x = 10000 -> 9210

(***************************************************************************)
(* code/demand_functions.py                                                *)
(***************************************************************************)
WEIGHT_EF == 4
WEIGHT_PF == 3
WEIGHT_TF == 2
\* WEIGHT_DF with the tourism weight left out of the sum.
WEIGHT_DF_without_TF == 10 - (WEIGHT_PF + WEIGHT_EF)

WEIGHT_DF == 10 - (WEIGHT_PF + WEIGHT_EF + WEIGHT_TF)
WeightScale == 10 ^ 1
ScoreScale == WeightScale * Unit

PEAK_SEASON_MULTIPLIER == 3
STD_SEASON_MULTIPLIER == 2
OFF_PEAK_SEASON_MULTIPLIER == 1

DEMAND_SCALING_FACTOR == 10000

compute_population_factor(populations, product_of_populations) ==
    NumpyDiv(Sqrt(product_of_populations), Max2(populations[1], populations[2]))

\* 1 / (1 + exp(-log(y))) is y / (1 + y) for y > 0.
Logistic_of_log(y) == DivFix(y[1], y[2] + y[1])

compute_economic_factor(gdps, plis) ==
    LET adjusted_gdppc_origin == Rat(10 * gdps[1], plis[1])
        adjusted_gdppc_dest == Rat(10 * gdps[2], plis[2])
    IN  IF adjusted_gdppc_dest[1] = 0 THEN ZeroDivisionError
        ELSE LET esr == Rat(adjusted_gdppc_origin[1] * adjusted_gdppc_dest[2],
                            adjusted_gdppc_origin[2] * adjusted_gdppc_dest[1])
             IN  Logistic_of_log(<<esr[1] * 100000 + esr[2], esr[2] * 100000>>)

compute_tourism_factor(tourism_expenditures, product_of_expenditures) ==
    NumpyDiv(Sqrt(product_of_expenditures),
             Max2(tourism_expenditures[1], tourism_expenditures[2]))

\* compute_distance_factor without the min(..., 1.0) clamp.
compute_distance_factor_unclamped(distance) ==
    DivFix(LognormPdf(distance), LognormPdf(1000))

compute_distance_factor(distance) ==
    LET scale == 1000
        pdf_value == LognormPdf(distance)
        max_pdf == LognormPdf(scale)
    IN  Min2(DivFix(pdf_value, max_pdf), Unit)

get_seasonality_factor(curr_month) ==
    CASE curr_month \in {6, 7, 8, 12} -> PEAK_SEASON_MULTIPLIER
      [] curr_month \in {1, 2} -> OFF_PEAK_SEASON_MULTIPLIER
      [] OTHER -> STD_SEASON_MULTIPLIER

\* The weighted sum with the tourism factor subtracted.
WeightedSum_minus_TF(pf, ef, tf, df) ==
    WEIGHT_PF * pf + WEIGHT_EF * ef - WEIGHT_TF * tf + WEIGHT_DF * df

\* The weighted sum of four factors with the module's weights, at ScoreScale.
WeightedSum(pf, ef, tf, df) ==
    WEIGHT_PF * pf + WEIGHT_EF * ef + WEIGHT_TF * tf + WEIGHT_DF * df

compute_composite_score(distance, st) ==
    LET pf == compute_population_factor(<<st.populations[1], st.populations[2]>>,
                                        st.populations[4])
        ef == compute_economic_factor(<<st.gdps[1], st.gdps[2]>>, <<st.plis[1], st.plis[2]>>)
        tf == compute_tourism_factor(<<st.tourism_expenditures[1], st.tourism_expenditures[2]>>,
                                     st.tourism_expenditures[4])
        df == compute_distance_factor(distance)
    IN  Propagate(<<pf, ef, tf, df>>, WeightedSum(pf, ef, tf, df))

compute_base_demand(distance, st) ==
    LET cs == compute_composite_score(distance, st)
    IN  Propagate(<<cs>>, cs * (DEMAND_SCALING_FACTOR \div ScoreScale))

\* The first-class and business-class multipliers are carried at HundredthScale
\* (0.05 is 5 hundredths), the economy-class multiplier at TenthScale (0.8 is
\* 8 tenths).
HundredthScale == 100 * Unit
TenthScale == 10 * Unit

get_first_class_multiplier(gdps, plis) ==
    LET ef == compute_economic_factor(gdps, plis)
    IN  Propagate(<<ef>>, ef * 5)

get_business_class_multiplier(gdps, plis, tourism_expenditures, product_of_expenditures) ==
    LET ef == compute_economic_factor(gdps, plis)
        tf == compute_tourism_factor(tourism_expenditures, product_of_expenditures)
    IN  Propagate(<<ef, tf>>, ef * 8 + tf * 7)

get_economy_class_multiplier(populations, product_of_populations, distance) ==
    LET pf == compute_population_factor(populations, product_of_populations)
        df == compute_distance_factor(distance)
    IN  Propagate(<<pf, df>>, (pf + df) * 8)

(***************************************************************************)
(* code/helpers.py                                                         *)
(***************************************************************************)
\* normalise(value, _min, _max), for _min < _max.
normalise(value, min, max) == DivFix(value - min, max - min)

\* The routes file is the sequence of its rows' distances (its third column);
\* the files of the model hold at least two distinct distances.
get_min_and_max_distances(file) ==
    LET ds == {file[i] : i \in DOMAIN file}
    IN  <<CHOOSE d \in ds : \A e \in ds : d <= e, CHOOSE d \in ds : \A e \in ds : d >= e>>

(***************************************************************************)
(* code/passenger_demand.py: class PassengerDemand.  An instance is its    *)
(* stats, its distance and the routes file it reads.                       *)
(***************************************************************************)
PD_DEMAND_SCALING_FACTOR == 10000

\* (a, b, a+b, a*b), as get_populations, get_gdps, get_plis and
\* get_tourism_expenditures build it.
IndicatorTuple(a, b) == <<a, b, a + b, a * b>>

PD_compute_population_factor(st) ==
    LET max_pop == Max2(st.populations[1], st.populations[2])
    IN  NumpyDiv(Sqrt(st.populations[4]), max_pop)

PD_compute_economic_factor(st) ==
    LET adjusted_gdppc_origin == Rat(10 * st.gdps[1], st.plis[1])
        adjusted_gdppc_dest == Rat(10 * st.gdps[2], st.plis[2])
    IN  IF adjusted_gdppc_dest[1] = 0 THEN ZeroDivisionError
        ELSE LET esr == Rat(adjusted_gdppc_origin[1] * adjusted_gdppc_dest[2],
                            adjusted_gdppc_origin[2] * adjusted_gdppc_dest[1])
             IN  Logistic_of_log(<<esr[1] * 100000 + esr[2], esr[2] * 100000>>)

PD_compute_tourism_factor(st) ==
    LET max_te == Max2(st.tourism_expenditures[1], st.tourism_expenditures[2])
    IN  NumpyDiv(Sqrt(st.tourism_expenditures[4]), max_te)

\* 1 / log(x) in millionths; log(0) is -inf and 1 / -inf is -0.0.
InvLog(x) == IF x = 0 THEN 0 ELSE (1000000 * 1000) \div Log(x)

PD_compute_distance_factor(distance, file) ==
    LET mm == get_min_and_max_distances(file)
        min_dist == mm[1]
        max_dist == mm[2]
    IN  normalise(InvLog(distance), InvLog(max_dist), InvLog(min_dist))

\* PD_get_seasonality_factor without December among the peak months.
PD_get_seasonality_factor_no_december(curr_month) ==
    IF 6 <= curr_month /\ curr_month <= 8 THEN 3
    ELSE IF curr_month \in {1, 2} THEN 1
    ELSE 2

PD_get_seasonality_factor(curr_month) ==
    IF (6 <= curr_month /\ curr_month <= 8) \/ curr_month = 12 THEN 3
    ELSE IF curr_month \in {1, 2} THEN 1
    ELSE 2

\* The weighted sum of four factors with the method's local weights, at ScoreScale.
PD_WeightedSum(pf, ef, tf, df) ==
    LET weight_pf == 3
        weight_ef == 3
        weight_tf == 2
        weight_df == 2
    IN  weight_pf * pf + weight_ef * ef + weight_tf * tf + weight_df * df

PD_compute_composite_score(st, distance, file) ==
    LET pf == PD_compute_population_factor(st)
        ef == PD_compute_economic_factor(st)
        tf == PD_compute_tourism_factor(st)
        df == PD_compute_distance_factor(distance, file)
    IN  Propagate(<<pf, ef, tf, df>>, PD_WeightedSum(pf, ef, tf, df))

PD_compute_base_demand(st, distance, file) ==
    LET cs == PD_compute_composite_score(st, distance, file)
    IN  Propagate(<<cs>>, cs * (PD_DEMAND_SCALING_FACTOR \div ScoreScale))

\* PD_get_first_class_multiplier with the 0.05 of demand_functions.
PD_get_first_class_multiplier_005(st) ==
    LET ef == PD_compute_economic_factor(st)
    IN  Propagate(<<ef>>, ef * 5)

PD_get_first_class_multiplier(st) ==
    LET ef == PD_compute_economic_factor(st)
    IN  Propagate(<<ef>>, ef * 2)

PD_get_business_class_multiplier(st) ==
    LET ef == PD_compute_economic_factor(st)
        tf == PD_compute_tourism_factor(st)
    IN  Propagate(<<ef, tf>>, ef * 5 + tf * 3)

PD_get_economy_class_multiplier(st, distance, file) ==
    LET pf == PD_compute_population_factor(st)
        df == PD_compute_distance_factor(distance, file)
    IN  Propagate(<<pf, df>>, (pf + df) * 8)

(***************************************************************************)
(* code/helpers.py: gc_distance on the sphere.  Angles in radians are      *)
(* carried in units of pi/6, where the haversine is rational or close to   *)
(* it: a haversine at HavScale, a cosine at CosScale, the term under the   *)
(* square root at CosScale * CosScale * HavScale, a distance in whole      *)
(* kilometres (rounded down).                                              *)
(***************************************************************************)
LatitudeSet == {-3, -2, 0, 2, 3}
LongitudeSet == {-6, -4, -2, 0, 2, 4, 6}
CoordinateSet == LatitudeSet \X LongitudeSet

HavScale == 16000
CosScale == 2

Abs(x) == IF x >= 0 THEN x ELSE -x

\* haversin(alpha) = np.sin(alpha/2)**2; the sine is odd and its square even.
haversin(alpha) ==
    LET a == Abs(alpha)
    IN  CASE a \in {0, 12} -> 0
          [] a \in {1, 11} -> 1071
          [] a \in {2, 10} -> 4000
          [] a \in {3, 9} -> 8000
          [] a \in {4, 8} -> 12000
          [] a \in {5, 7} -> 14928
          [] a = 6 -> 16000

\* np.cos(phi) of a latitude.
np_cos(phi) ==
    CASE Abs(phi) = 0 -> 2
      [] Abs(phi) = 2 -> 1
      [] Abs(phi) = 3 -> 0

\* 2 * earth_radius_km * np.arcsin(np.sqrt(h)) with earth_radius_km = 6378.1:
\* tabulated, between two tabulated arguments the value of the lower one;
\* np.arcsin is nan above 1.
great_circle_km(h) ==
    CASE h < 0 -> NaN
      [] 0 <= h /\ h < 4000 -> 0
      [] 4000 <= h /\ h < 4284 -> 3223
      [] 4284 <= h /\ h < 12000 -> 3338
      [] 12000 <= h /\ h < 16000 -> 5712
      [] 16000 <= h /\ h < 24000 -> 6679
      [] 24000 <= h /\ h < 32000 -> 8407
      [] 32000 <= h /\ h < 40000 -> 10018
      [] 40000 <= h /\ h < 48000 -> 11630
      [] 48000 <= h /\ h < 52000 -> 13358
      [] 52000 <= h /\ h < 59712 -> 14324
      [] 59712 <= h /\ h < 60000 -> 16697
      [] 60000 <= h /\ h < 64000 -> 16814
      [] h = 64000 -> 20037
      [] h > 64000 -> NaN

\* gc_distance with np.cos(phi1) left out of the product.
gc_distance_sphere_without_cos_phi1(airport_coords1, airport_coords2) ==
    LET phi1 == airport_coords1[1]
        lambda1 == airport_coords1[2]
        phi2 == airport_coords2[1]
        lambda2 == airport_coords2[2]
    IN  great_circle_km(CosScale * CosScale * haversin(phi2 - phi1)
                        + CosScale * np_cos(phi2) * haversin(lambda2 - lambda1))

\* gc_distance(airport_coords1, airport_coords2) of two (latitude, longitude)
\* tuples in radians.
gc_distance_sphere(airport_coords1, airport_coords2) ==
    LET phi1 == airport_coords1[1]
        lambda1 == airport_coords1[2]
        phi2 == airport_coords2[1]
        lambda2 == airport_coords2[2]
    IN  great_circle_km(CosScale * CosScale * haversin(phi2 - phi1)
                        + np_cos(phi1) * np_cos(phi2) * haversin(lambda2 - lambda1))

(***************************************************************************)
(* The inputs of the model.                                                *)
(***************************************************************************)
StatsSet ==
    {[populations |-> IndicatorTuple(p_i, p_j), gdps |-> IndicatorTuple(gdp_i, gdp_j),
      plis |-> IndicatorTuple(pli_i, pli_j), tourism_expenditures |-> IndicatorTuple(te_i, te_j)] :
        p_i \in PopulationSet, p_j \in PopulationSet, gdp_i \in GdpSet, gdp_j \in GdpSet,
        pli_i \in PliSet, pli_j \in PliSet, te_i \in TeSet, te_j \in TeSet}

\* What the providers return for a route out of the hub: the hub's city is
\* either unpopulated or the largest, its country the richest.
RouteStatsSet ==
    {st \in StatsSet :
        /\ st.populations[1] \in {0, 1000 * MaxPop}
        /\ st.gdps[1] = 10 * (2 * MaxGdp - 1)
        /\ st.plis[1] = 12
        /\ st.tourism_expenditures[1] = 500 * MaxTe}

RoutesFileSet == {<<100, 1000, 10000>>, <<5000, 200>>}

None == [none |-> TRUE]
NoLookups == [calls |-> 0, gc_distance |-> 0, population |-> 0, gdp |-> 0, pli |-> 0,
              tourism_expenditure |-> 0]
NoCall == [fn |-> "none", args |-> None, ret |-> 0]
NoBatch == [fn |-> "none", pc |-> "idle", i |-> 0, exc |-> "none"]
NoFiles == [destinations |-> None, routes |-> None, tmp |-> None]
NoFetch == None
NoDb == None

(***************************************************************************)
(* Direct calls of the functions of demand_functions and of the methods of *)
(* a PassengerDemand instance, as the test suite makes them.  call holds   *)
(* the last one: fn, the arguments and ret, the value returned (NaN for a  *)
(* nan, ZeroDivisionError for the exception).                              *)
(***************************************************************************)
Returned(fn, arguments, ret) == call' = [fn |-> fn, args |-> arguments, ret |-> ret]

RouteIdle ==
    UNCHANGED <<pc, routes_csv, args, route, world, lookups, stats, demand, result,
                batch, files, fetch, db>>

Call_compute_population_factor ==
    /\ call = NoCall
    /\ \E p_i \in PopulationSet, p_j \in PopulationSet :
        LET t == IndicatorTuple(p_i, p_j)
        IN  /\ Returned("__compute_population_factor", [populations |-> t],
                        compute_population_factor(<<t[1], t[2]>>, t[4]))
            /\ RouteIdle

Call_compute_economic_factor ==
    /\ call = NoCall
    /\ \E gdp_i \in GdpSet, gdp_j \in GdpSet, pli_i \in PliSet, pli_j \in PliSet :
        /\ Returned("__compute_economic_factor",
                    [gdps |-> <<gdp_i, gdp_j>>, plis |-> <<pli_i, pli_j>>],
                    compute_economic_factor(<<gdp_i, gdp_j>>, <<pli_i, pli_j>>))
        /\ RouteIdle

Call_compute_tourism_factor ==
    /\ call = NoCall
    /\ \E te_i \in TeSet, te_j \in TeSet :
        LET t == IndicatorTuple(te_i, te_j)
        IN  /\ Returned("__compute_tourism_factor", [tourism_expenditures |-> t],
                        compute_tourism_factor(<<t[1], t[2]>>, t[4]))
            /\ RouteIdle

Call_compute_distance_factor ==
    /\ call = NoCall
    /\ \E d \in DistanceSet :
        /\ Returned("__compute_distance_factor", [distance |-> d], compute_distance_factor(d))
        /\ RouteIdle

Call_get_seasonality_factor ==
    /\ call = NoCall
    /\ \E m \in MonthSet :
        /\ Returned("_get_seasonality_factor", [month |-> m], get_seasonality_factor(m))
        /\ RouteIdle

Call_compute_composite_score ==
    /\ call = NoCall
    /\ \E st \in StatsSet, d \in DistanceSet :
        /\ Returned("__compute_composite_score", [stats |-> st, distance |-> d],
                    compute_composite_score(d, st))
        /\ RouteIdle

Call_compute_base_demand ==
    /\ call = NoCall
    /\ \E st \in StatsSet, d \in DistanceSet :
        /\ Returned("_compute_base_demand", [stats |-> st, distance |-> d],
                    compute_base_demand(d, st))
        /\ RouteIdle

Call_get_first_class_multiplier ==
    /\ call = NoCall
    /\ \E gdp_i \in GdpSet, gdp_j \in GdpSet, pli_i \in PliSet, pli_j \in PliSet :
        /\ Returned("_get_first_class_multiplier",
                    [gdps |-> <<gdp_i, gdp_j>>, plis |-> <<pli_i, pli_j>>],
                    get_first_class_multiplier(<<gdp_i, gdp_j>>, <<pli_i, pli_j>>))
        /\ RouteIdle

Call_get_business_class_multiplier ==
    /\ call = NoCall
    /\ \E gdp_i \in GdpSet, gdp_j \in GdpSet, pli_i \in PliSet, pli_j \in PliSet,
       te_i \in TeSet, te_j \in TeSet :
        LET t == IndicatorTuple(te_i, te_j)
        IN  /\ Returned("_get_business_class_multiplier",
                        [gdps |-> <<gdp_i, gdp_j>>, plis |-> <<pli_i, pli_j>>,
                         tourism_expenditures |-> t],
                        get_business_class_multiplier(<<gdp_i, gdp_j>>, <<pli_i, pli_j>>,
                                                      <<t[1], t[2]>>, t[4]))
            /\ RouteIdle

Call_get_economy_class_multiplier ==
    /\ call = NoCall
    /\ \E p_i \in PopulationSet, p_j \in PopulationSet, d \in DistanceSet :
        LET t == IndicatorTuple(p_i, p_j)
        IN  /\ Returned("_get_economy_class_multiplier", [populations |-> t, distance |-> d],
                        get_economy_class_multiplier(<<t[1], t[2]>>, t[4], d))
            /\ RouteIdle

\* The stats of the test suite (tourism expenditures scaled to the model's).
DefaultStats ==
    [populations |-> IndicatorTuple(1000, 2000), gdps |-> IndicatorTuple(10, 30),
     plis |-> IndicatorTuple(11, 12), tourism_expenditures |-> IndicatorTuple(500, 1000)]

\* The methods of a PassengerDemand instance holding the stats st and the
\* distance d, with the routes file f on disk.
Call_PD_compute_population_factor ==
    /\ call = NoCall
    /\ \E p_i \in PopulationSet, p_j \in PopulationSet :
        LET st == [DefaultStats EXCEPT !.populations = IndicatorTuple(p_i, p_j)]
        IN  /\ Returned("PassengerDemand.__compute_population_factor", [stats |-> st],
                        PD_compute_population_factor(st))
            /\ RouteIdle

Call_PD_compute_economic_factor ==
    /\ call = NoCall
    /\ \E gdp_i \in GdpSet, gdp_j \in GdpSet, pli_i \in PliSet, pli_j \in PliSet :
        LET st == [DefaultStats EXCEPT !.gdps = IndicatorTuple(gdp_i, gdp_j),
                                       !.plis = IndicatorTuple(pli_i, pli_j)]
        IN  /\ Returned("PassengerDemand.__compute_economic_factor", [stats |-> st],
                        PD_compute_economic_factor(st))
            /\ RouteIdle

Call_PD_compute_tourism_factor ==
    /\ call = NoCall
    /\ \E te_i \in TeSet, te_j \in TeSet :
        LET st == [DefaultStats EXCEPT !.tourism_expenditures = IndicatorTuple(te_i, te_j)]
        IN  /\ Returned("PassengerDemand.__compute_tourism_factor", [stats |-> st],
                        PD_compute_tourism_factor(st))
            /\ RouteIdle

Call_PD_compute_distance_factor ==
    /\ call = NoCall
    /\ \E d \in DistanceSet, f \in RoutesFileSet :
        /\ Returned("PassengerDemand.__compute_distance_factor",
                    [distance |-> d, file |-> f], PD_compute_distance_factor(d, f))
        /\ RouteIdle

Call_PD_get_base_demand ==
    /\ call = NoCall
    /\ \E st \in RouteStatsSet, d \in DistanceSet, f \in RoutesFileSet :
        /\ Returned("PassengerDemand.get_base_demand",
                    [stats |-> st, distance |-> d, file |-> f],
                    PD_compute_base_demand(st, d, f))
        /\ RouteIdle

Call_PD_get_seasonality_factor ==
    /\ call = NoCall
    /\ \E m \in MonthSet :
        /\ Returned("PassengerDemand.get_seasonality_factor", [month |-> m],
                    PD_get_seasonality_factor(m))
        /\ RouteIdle

Call_PD_get_first_class_multiplier ==
    /\ call = NoCall
    /\ \E gdp_i \in GdpSet, gdp_j \in GdpSet, pli_i \in PliSet, pli_j \in PliSet :
        LET st == [DefaultStats EXCEPT !.gdps = IndicatorTuple(gdp_i, gdp_j),
                                       !.plis = IndicatorTuple(pli_i, pli_j)]
        IN  /\ Returned("PassengerDemand.get_first_class_multiplier", [stats |-> st],
                        PD_get_first_class_multiplier(st))
            /\ RouteIdle

Call_PD_get_business_class_multiplier ==
    /\ call = NoCall
    /\ \E gdp_i \in GdpSet, gdp_j \in GdpSet, pli_i \in PliSet, pli_j \in PliSet,
       te_i \in TeSet, te_j \in TeSet :
        LET st == [DefaultStats EXCEPT !.gdps = IndicatorTuple(gdp_i, gdp_j),
                                       !.plis = IndicatorTuple(pli_i, pli_j),
                                       !.tourism_expenditures = IndicatorTuple(te_i, te_j)]
        IN  /\ Returned("PassengerDemand.get_business_class_multiplier", [stats |-> st],
                        PD_get_business_class_multiplier(st))
            /\ RouteIdle

Call_PD_get_economy_class_multiplier ==
    /\ call = NoCall
    /\ \E p_i \in PopulationSet, p_j \in PopulationSet, d \in DistanceSet, f \in RoutesFileSet :
        LET st == [DefaultStats EXCEPT !.populations = IndicatorTuple(p_i, p_j)]
        IN  /\ Returned("PassengerDemand.get_economy_class_multiplier",
                        [stats |-> st, distance |-> d, file |-> f],
                        PD_get_economy_class_multiplier(st, d, f))
            /\ RouteIdle

Call_gc_distance ==
    /\ call = NoCall
    /\ \E airport_coords1 \in CoordinateSet, airport_coords2 \in CoordinateSet :
        /\ Returned("gc_distance",
                    [airport_coords1 |-> airport_coords1, airport_coords2 |-> airport_coords2],
                    gc_distance_sphere(airport_coords1, airport_coords2))
        /\ RouteIdle

InitFn ==
    /\ call = NoCall
    /\ pc = "Uninitialized"
    /\ routes_csv = <<>>
    /\ args = None
    /\ route = None
    /\ world = None
    /\ lookups = NoLookups
    /\ stats = None
    /\ demand = None
    /\ result = None
    /\ batch = NoBatch
    /\ files = NoFiles
    /\ fetch = NoFetch
    /\ db = NoDb

NextFn ==
    \/ Call_compute_population_factor
    \/ Call_compute_economic_factor
    \/ Call_compute_tourism_factor
    \/ Call_compute_distance_factor
    \/ Call_get_seasonality_factor
    \/ Call_compute_composite_score
    \/ Call_compute_base_demand
    \/ Call_get_first_class_multiplier
    \/ Call_get_business_class_multiplier
    \/ Call_get_economy_class_multiplier
    \/ Call_PD_compute_population_factor
    \/ Call_PD_compute_economic_factor
    \/ Call_PD_compute_tourism_factor
    \/ Call_PD_compute_distance_factor
    \/ Call_PD_get_base_demand
    \/ Call_PD_get_seasonality_factor
    \/ Call_PD_get_first_class_multiplier
    \/ Call_PD_get_business_class_multiplier
    \/ Call_PD_get_economy_class_multiplier
    \/ Call_gc_distance

SpecFn == InitFn /\ [][NextFn]_vars

(***************************************************************************)
(* code/routes.py: Route(hub, dest).get_approximate_pax_demand(), step by  *)
(* step.  The raw demands are carried at RawHundredthScale (first,         *)
(* business) and RawTenthScale (economy): passengers * halves * multiplier.*)
(***************************************************************************)
RawHundredthScale == 2 * HundredthScale
RawTenthScale == 2 * TenthScale

\* int(x) replaced by rounding half up.
PyInt_round_half_up(x, scale) == (2 * x + scale) \div (2 * scale)

\* Python's int(x) of the float x carried at scale: truncation toward zero.
PyInt(x, scale) == IF x >= 0 THEN x \div scale ELSE -((-x) \div scale)

\* x * y of floats.
Times(x, y) == Propagate(<<x, y>>, x * y)

\* Python's None.
PyNone == -2147483645

\* An exception leaving a constructor or a method.
Raise(exc) == [exc |-> exc]
Raised(v) == "exc" \in DOMAIN v

(***************************************************************************)
(* code/airport.py.  Angles in degrees are carried in units of the arc of  *)
(* 100 km on the earth's sphere, angles in radians in units of the arc of  *)
(* 1 km; the airports of the model lie on the hub's meridian.              *)
(***************************************************************************)
\* load_airport_data(): the codes data/destinations.csv has a row for.
load_airport_data ==
    {"LSGG", "LFLB", "LSZH", "LFPG", "EGLL", "EGBB", "BIKF", "OMDB", "KSFO", "LSMD"}

\* load_airports_positions(): code -> (latitude, longitude) of
\* data/GlobalAirportDatabase.txt.
load_airports_positions ==
    [LSGG |-> <<0, 0>>, LFLB |-> <<1, 0>>, LSZH |-> <<2, 0>>, LFPG |-> <<5, 0>>,
     EGLL |-> <<7, 0>>, EGBB |-> <<10, 0>>, BIKF |-> <<20, 0>>, OMDB |-> <<50, 0>>,
     KSFO |-> <<100, 0>>, EGKK |-> <<7, 0>>]

\* The codes a Route is constructed with.
HubSet == {"LSGG", "LSMD"}
DestSet == load_airport_data \cup DOMAIN load_airports_positions \cup {"XXXX"}

get_latitude_and_longitude(icao_code) ==
    LET airport_positions == load_airports_positions
    IN  IF icao_code \in DOMAIN airport_positions
        THEN airport_positions[icao_code]
        ELSE <<PyNone, PyNone>>

\* Airport(icao_code): load_airport_data()[icao_code] raises KeyError for a
\* code without a row.
Airport(icao_code) ==
    IF icao_code \notin load_airport_data THEN Raise("KeyError")
    ELSE [icao_code |-> icao_code,
          latitude |-> get_latitude_and_longitude(icao_code)[1],
          longitude |-> get_latitude_and_longitude(icao_code)[2]]

(***************************************************************************)
(* code/helpers.py: degrees_to_radians and gc_distance.                    *)
(***************************************************************************)
\* degrees * np.pi / 180; None * np.pi raises TypeError.
degrees_to_radians(degrees) == IF degrees = PyNone THEN PyNone ELSE degrees * 100

\* The great-circle distance of two points of one meridian is the arc between
\* their latitudes: with lambda1 = lambda2 the haversine formula is
\* 2 * R * arcsin(|sin((phi2 - phi1) / 2)|) = R * |phi2 - phi1|.
gc_distance(airport_coords1, airport_coords2) ==
    LET phi1 == airport_coords1[1]
        lambda1 == airport_coords1[2]
        phi2 == airport_coords2[1]
        lambda2 == airport_coords2[2]
    IN  CASE lambda1 = lambda2 -> IF phi2 >= phi1 THEN phi2 - phi1 ELSE phi1 - phi2

\* Route.get_distance() on the airports of r; a None coordinate raises
\* TypeError in degrees_to_radians.
get_distance(r) ==
    LET hub_coords == <<degrees_to_radians(r.hub_airport.latitude),
                        degrees_to_radians(r.hub_airport.longitude)>>
        dest_coords == <<degrees_to_radians(r.dest_airport.latitude),
                         degrees_to_radians(r.dest_airport.longitude)>>
    IN  IF PyNone \in {hub_coords[1], hub_coords[2], dest_coords[1], dest_coords[2]}
        THEN Raise("TypeError")
        ELSE [distance |-> gc_distance(hub_coords, dest_coords)]

(***************************************************************************)
(* The indicator providers.                                                *)
(***************************************************************************)
\* get_city_population_geonames returning 0 where it returns None.
get_city_population_geonames_or_zero(response) ==
    IF response.status = "RequestException" THEN 0
    ELSE IF response.totalResultsCount > 0 THEN response.population
    ELSE 0

\* get_city_population_geonames on the response of the GeoNames request: the
\* population of the first result, None without a result or when the request
\* fails.
get_city_population_geonames(response) ==
    IF response.status = "RequestException" THEN PyNone
    ELSE IF response.totalResultsCount > 0 THEN response.population
    ELSE PyNone

\* WorldBank.get_gdp on the JSON of the response: data[1][0]['value'].
get_gdp(data) == data[2][1].value

\* WorldBank.get_pli and WorldBank.get_tourism_expenditure: the provider's
\* value for the metric, or None when it has none.
lookup_indicator(answers, metric) == answers[metric]

GeoNamesFound(p) == [status |-> "ok", totalResultsCount |-> 1, population |-> p]
GeoNamesNotFound == [status |-> "ok", totalResultsCount |-> 0, population |-> PyNone]
GeoNamesFailed == [status |-> "RequestException", totalResultsCount |-> 0, population |-> PyNone]
GdpJson(v) == <<[page |-> 1, pages |-> 1], <<[value |-> v]>>>>

\* The providers' answers that give a route the stats st.
WorldOf(st) ==
    [population |-> <<GeoNamesFound(st.populations[1]), GeoNamesFound(st.populations[2])>>,
     gdp |-> <<GdpJson(st.gdps[1]), GdpJson(st.gdps[2])>>,
     indicators |-> <<[pli |-> st.plis[1], tourism_expenditure |-> st.tourism_expenditures[1]],
                      [pli |-> st.plis[2], tourism_expenditure |-> st.tourism_expenditures[2]]>>]

\* Answers with one indicator of one endpoint absent.
AbsentWorldSet ==
    LET w == WorldOf(DefaultStats)
    IN  UNION {{[w EXCEPT !.population[k] = GeoNamesNotFound],
                [w EXCEPT !.population[k] = GeoNamesFailed],
                [w EXCEPT !.gdp[k] = GdpJson(PyNone)],
                [w EXCEPT !.indicators[k].pli = PyNone],
                [w EXCEPT !.indicators[k].tourism_expenditure = PyNone]} : k \in 1..2}

WorldSet == {WorldOf(st) : st \in RouteStatsSet} \cup AbsentWorldSet

Init ==
    /\ call = NoCall
    /\ pc = "Uninitialized"
    /\ routes_csv \in RoutesFileSet
    /\ args = None
    /\ route = None
    /\ world = None
    /\ lookups = NoLookups
    /\ stats = None
    /\ demand = None
    /\ result = None
    /\ batch = NoBatch
    /\ files = NoFiles
    /\ fetch = NoFetch
    /\ db = NoDb

\* Route.__init__, up to the check of the destination's coordinates: both
\* Airport objects, then ValueError('No such airport ...') for a destination
\* without latitude or longitude.
RouteInit ==
    /\ pc = "Uninitialized"
    /\ \E hub_icao \in HubSet, dest_icao \in DestSet :
        LET hub_airport == Airport(hub_icao)
            dest_airport == Airport(dest_icao)
        IN  /\ args' = [hub_icao |-> hub_icao, dest_icao |-> dest_icao]
            /\ IF Raised(hub_airport) \/ Raised(dest_airport)
               THEN /\ pc' = "Failed"
                    /\ result' = [exc |-> "KeyError", triple |-> <<>>]
                    /\ UNCHANGED route
               ELSE IF dest_airport.latitude = PyNone \/ dest_airport.longitude = PyNone
               THEN /\ pc' = "Failed"
                    /\ result' = [exc |-> "ValueError", triple |-> <<>>]
                    /\ UNCHANGED route
               ELSE /\ pc' = "CoordinatesResolved"
                    /\ route' = [hub_airport |-> hub_airport, dest_airport |-> dest_airport]
                    /\ UNCHANGED result
    /\ UNCHANGED <<batch, files, fetch, db>>
    /\ UNCHANGED <<call, routes_csv, world, lookups, stats, demand>>

\* Route.__init__, its last line: self.distance = self.get_distance().  An
\* exception leaves no Route object.
RouteGetDistance ==
    /\ pc = "CoordinatesResolved"
    /\ LET d == get_distance(route)
       IN  IF Raised(d)
           THEN /\ pc' = "Failed"
                /\ result' = [exc |-> d.exc, triple |-> <<>>]
                /\ route' = None
                /\ UNCHANGED lookups
           ELSE /\ pc' = "DistanceComputed"
                /\ route' = [hub_airport |-> route.hub_airport,
                             dest_airport |-> route.dest_airport,
                             distance |-> d.distance]
                /\ lookups' = [lookups EXCEPT !.gc_distance = @ + 1]
                /\ UNCHANGED result
    /\ UNCHANGED <<batch, files, fetch, db>>
    /\ UNCHANGED <<call, routes_csv, args, world, stats, demand>>

\* The lookups made by PassengerDemand.__init__ when the answers are w: each
\* get_* method makes both of its lookups and then builds its tuple, which
\* raises TypeError on a None; the methods after it are not reached.
LookupsOf(w) ==
    LET p == {get_city_population_geonames(w.population[k]) : k \in 1..2}
        g == {get_gdp(w.gdp[k]) : k \in 1..2}
        l == {lookup_indicator(w.indicators[k], "pli") : k \in 1..2}
    IN  [population |-> 2,
         gdp |-> IF PyNone \in p THEN 0 ELSE 2,
         pli |-> IF PyNone \in p \cup g THEN 0 ELSE 2,
         tourism_expenditure |-> IF PyNone \in p \cup g \cup l THEN 0 ELSE 2]

\* PassengerDemand.stats on the answers w, or the TypeError of a tuple built
\* on a None.
StatsOf(w) ==
    LET p_i == get_city_population_geonames(w.population[1])
        p_j == get_city_population_geonames(w.population[2])
        gdp_i == get_gdp(w.gdp[1])
        gdp_j == get_gdp(w.gdp[2])
        pli_i == lookup_indicator(w.indicators[1], "pli")
        pli_j == lookup_indicator(w.indicators[2], "pli")
        te_i == lookup_indicator(w.indicators[1], "tourism_expenditure")
        te_j == lookup_indicator(w.indicators[2], "tourism_expenditure")
    IN  IF PyNone \in {p_i, p_j, gdp_i, gdp_j, pli_i, pli_j, te_i, te_j}
        THEN Raise("TypeError")
        ELSE [populations |-> IndicatorTuple(p_i, p_j),
              gdps |-> IndicatorTuple(gdp_i, gdp_j),
              plis |-> IndicatorTuple(pli_i, pli_j),
              tourism_expenditures |-> IndicatorTuple(te_i, te_j)]

\* get_approximate_pax_demand, its first line: pd = PassengerDemand(self).
\* route.get_distance() is answered by its lru_cache; every indicator is
\* looked up.  The providers answer a later call on the route as they
\* answered the first.
PassengerDemandInit ==
    /\ \/ pc = "DistanceComputed"
       \/ pc = "Done" /\ lookups.calls < MaxCalls
    /\ \E w \in WorldSet :
        /\ world = None \/ world = w
        /\ world' = w
        /\ lookups' = [lookups EXCEPT !.calls = @ + 1,
                                      !.population = @ + LookupsOf(w).population,
                                      !.gdp = @ + LookupsOf(w).gdp,
                                      !.pli = @ + LookupsOf(w).pli,
                                      !.tourism_expenditure = @ + LookupsOf(w).tourism_expenditure]
        /\ IF Raised(StatsOf(w))
           THEN /\ pc' = "Failed"
                /\ result' = [exc |-> StatsOf(w).exc, triple |-> <<>>]
                /\ stats' = None
           ELSE /\ pc' = "IndicatorsFetched"
                /\ result' = None
                /\ stats' = StatsOf(w)
    /\ demand' = None
    /\ UNCHANGED <<batch, files, fetch, db>>
    /\ UNCHANGED <<call, routes_csv, args, route>>

\* fcd = bcd = ecd = pd.get_base_demand() * pd.get_seasonality_factor(), then
\* each times its class multiplier; month is date.today().month.
ComputeDemand ==
    /\ pc = "IndicatorsFetched"
    /\ LET d == route.distance
           pf == PD_compute_population_factor(stats)
           ef == PD_compute_economic_factor(stats)
           tf == PD_compute_tourism_factor(stats)
           df == PD_compute_distance_factor(d, routes_csv)
           composite == PD_compute_composite_score(stats, d, routes_csv)
           base == PD_compute_base_demand(stats, d, routes_csv)
           fcm == PD_get_first_class_multiplier(stats)
           bcm == PD_get_business_class_multiplier(stats)
           ecm == PD_get_economy_class_multiplier(stats, d, routes_csv)
       IN  IF base = ZeroDivisionError
           THEN /\ pc' = "Failed"
                /\ result' = [exc |-> "ZeroDivisionError", triple |-> <<>>]
                /\ UNCHANGED demand
           ELSE \E month \in MonthSet :
                LET sf == PD_get_seasonality_factor(month)
                    seasonal == Times(base, sf)
                IN  /\ pc' = "ScoresComputed"
                    /\ demand' = [month |-> month,
                                  pf |-> pf, ef |-> ef, tf |-> tf, df |-> df,
                                  composite |-> composite,
                                  base |-> base, sf |-> sf,
                                  fcm |-> fcm, bcm |-> bcm, ecm |-> ecm,
                                  fcd |-> Times(seasonal, fcm),
                                  bcd |-> Times(seasonal, bcm),
                                  ecd |-> Times(seasonal, ecm)]
                    /\ UNCHANGED result
    /\ UNCHANGED <<batch, files, fetch, db>>
    /\ UNCHANGED <<call, routes_csv, args, route, world, lookups, stats>>

\* return (int(fcd), int(bcd), int(ecd)); int(nan) raises ValueError.
ReturnDemand ==
    /\ pc = "ScoresComputed"
    /\ IF NaN \in {demand.fcd, demand.bcd, demand.ecd}
       THEN /\ pc' = "Failed"
            /\ result' = [exc |-> "ValueError", triple |-> <<>>]
       ELSE /\ pc' = "Done"
            /\ result' = [exc |-> "none",
                          triple |-> <<PyInt(demand.fcd, RawHundredthScale),
                                       PyInt(demand.bcd, RawHundredthScale),
                                       PyInt(demand.ecd, RawTenthScale)>>]
    /\ UNCHANGED <<batch, files, fetch, db>>
    /\ UNCHANGED <<call, routes_csv, args, route, world, lookups, stats, demand>>

Next ==
    \/ RouteInit
    \/ RouteGetDistance
    \/ PassengerDemandInit
    \/ ComputeDemand
    \/ ReturnDemand

Spec == Init /\ [][Next]_vars

(***************************************************************************)
(* code/routes.py: populate_routes_in_csv and populate_demands_in_csv.  A  *)
(* file is its header and the sequence of its lines, a line the tuple of   *)
(* its comma-separated fields, <<>> for a blank line.  Distances are whole *)
(* kilometres, which '{route.distance:.2f}' prints as they are.  The month *)
(* of date.today() is the same for every row of a run.  PassengerDemand    *)
(* reads the distances of data/routes.csv (routes_csv), not the file the   *)
(* function is given.                                                      *)
(***************************************************************************)
MaxRows == 4    \* a destinations file or routes file has at most MaxRows lines

MAIN_HUB == "LSGG"

\* Route(hub_icao, dest_icao): the object, or the exception __init__ raises.
Route(hub_icao, dest_icao) ==
    LET hub_airport == Airport(hub_icao)
        dest_airport == Airport(dest_icao)
    IN  IF Raised(hub_airport) \/ Raised(dest_airport) THEN Raise("KeyError")
        ELSE IF dest_airport.latitude = PyNone \/ dest_airport.longitude = PyNone
        THEN Raise("ValueError")
        ELSE LET r == [hub_airport |-> hub_airport, dest_airport |-> dest_airport]
                 d == get_distance(r)
             IN  IF Raised(d) THEN d
                 ELSE [hub_airport |-> hub_airport, dest_airport |-> dest_airport,
                       distance |-> d.distance]

\* r.get_approximate_pax_demand() when the providers answer w, the month is
\* month and data/routes.csv holds the distances of file: the triple, or the
\* exception raised.
get_approximate_pax_demand(r, w, month, file) ==
    LET st == StatsOf(w)
    IN  IF Raised(st) THEN st
        ELSE LET d == r.distance
                 base == PD_compute_base_demand(st, d, file)
                 seasonal == Times(base, PD_get_seasonality_factor(month))
                 fcd == Times(seasonal, PD_get_first_class_multiplier(st))
                 bcd == Times(seasonal, PD_get_business_class_multiplier(st))
                 ecd == Times(seasonal, PD_get_economy_class_multiplier(st, d, file))
             IN  IF base = ZeroDivisionError THEN Raise("ZeroDivisionError")
                 ELSE IF NaN \in {fcd, bcd, ecd} THEN Raise("ValueError")
                 ELSE [triple |-> <<PyInt(fcd, RawHundredthScale),
                                    PyInt(bcd, RawHundredthScale),
                                    PyInt(ecd, RawTenthScale)>>]

\* The files a run starts from and the answers of the providers during it.
BatchDestSet == {"LSZH", "LFPG", "EGKK"}
DestinationsFileSet ==
    {[header |-> <<"icao_code">>, lines |-> [k \in DOMAIN f |-> <<f[k]>>]] :
        f \in UNION {[1..n -> BatchDestSet] : n \in 0..MaxRows}}
RoutesLineSet ==
    {<<"LSGG", "LSZH", 200>>, <<"LSGG", "LFPG", 500>>, <<"LSGG", "EGKK", 700>>, <<>>}
RoutesInputFileSet ==
    {[header |-> <<"hub_id", "destination_id", "distance">>, lines |-> f] :
        f \in UNION {[1..n -> RoutesLineSet] : n \in 0..(MaxRows - 1)}}
BatchWorldSet ==
    {WorldOf(DefaultStats), [WorldOf(DefaultStats) EXCEPT !.population[2] = GeoNamesNotFound]}

DemandColumns == <<"first_class_demand", "business_class_demand", "economy_class_demand">>

EstimatorIdle ==
    UNCHANGED <<call, pc, routes_csv, args, route, world, lookups, stats, demand, result>>

InitBatch ==
    /\ call = NoCall
    /\ pc = "Uninitialized"
    /\ routes_csv \in RoutesFileSet
    /\ args = None
    /\ route = None
    /\ world = None
    /\ lookups = NoLookups
    /\ stats = None
    /\ demand = None
    /\ result = None
    /\ fetch = NoFetch
    /\ db = NoDb
    /\ \/ /\ batch = [fn |-> "populate_routes_in_csv", pc |-> "idle", i |-> 0, exc |-> "none"]
          /\ \E f \in DestinationsFileSet : files = [NoFiles EXCEPT !.destinations = f]
       \/ /\ batch = [fn |-> "populate_demands_in_csv", pc |-> "idle", i |-> 0, exc |-> "none"]
          /\ \E f \in RoutesInputFileSet : files = [NoFiles EXCEPT !.routes = f]

\* populate_routes_in_csv up to the loop: routes_csv is opened for writing
\* and gets its header, the header of the destinations file is skipped.
PopulateRoutesStart ==
    /\ batch.fn = "populate_routes_in_csv"
    /\ batch.pc = "idle"
    /\ \E month \in MonthSet :
        batch' = [fn |-> batch.fn, pc |-> "loop", i |-> 0, exc |-> "none",
                  month |-> month, estimated |-> 0]
    /\ files' = [files EXCEPT !.routes =
                    [header |-> <<"hub_id", "destination_id", "distance">> \o DemandColumns,
                     lines |-> <<>>]]
    /\ EstimatorIdle
    /\ UNCHANGED <<fetch, db>>

\* One iteration of the loop of populate_routes_in_csv: i is the index
\* enumerate gives the line; the iteration of index 2 ends with break.
PopulateRoutesRow ==
    /\ batch.fn = "populate_routes_in_csv"
    /\ batch.pc = "loop"
    /\ batch.i < Len(files.destinations.lines)
    /\ LET line == files.destinations.lines[batch.i + 1]
           dest_icao == line[1]
           r == Route(MAIN_HUB, dest_icao)
       IN  IF Raised(r)
           THEN /\ batch' = [batch EXCEPT !.pc = "raised", !.exc = r.exc]
                /\ UNCHANGED files
           ELSE \E w \in BatchWorldSet :
                LET t == get_approximate_pax_demand(r, w, batch.month, routes_csv)
                IN  IF Raised(t)
                    THEN /\ batch' = [batch EXCEPT !.pc = "raised", !.exc = t.exc,
                                                   !.estimated = @ + 1]
                         /\ UNCHANGED files
                    ELSE /\ files' = [files EXCEPT !.routes.lines =
                                        Append(@, <<MAIN_HUB, dest_icao, r.distance>> \o t.triple)]
                         /\ batch' = [batch EXCEPT !.estimated = @ + 1,
                                                   !.i = @ + 1,
                                                   !.pc = IF batch.i = 2 THEN "done" ELSE @]
    /\ EstimatorIdle
    /\ UNCHANGED <<fetch, db>>

\* The loop of populate_routes_in_csv ends at the end of the destinations
\* file.
PopulateRoutesFinish ==
    /\ batch.fn = "populate_routes_in_csv"
    /\ batch.pc = "loop"
    /\ batch.i = Len(files.destinations.lines)
    /\ batch' = [batch EXCEPT !.pc = "done"]
    /\ UNCHANGED files
    /\ EstimatorIdle
    /\ UNCHANGED <<fetch, db>>

\* populate_demands_in_csv up to the loop: the temporary file is opened for
\* writing and gets the header of routes_csv and the three demand columns.
PopulateDemandsStart ==
    /\ batch.fn = "populate_demands_in_csv"
    /\ batch.pc = "idle"
    /\ \E month \in MonthSet :
        batch' = [fn |-> batch.fn, pc |-> "loop", i |-> 0, exc |-> "none",
                  month |-> month, estimated |-> 0]
    /\ files' = [files EXCEPT !.tmp = [header |-> files.routes.header \o DemandColumns,
                                       lines |-> <<>>]]
    /\ EstimatorIdle
    /\ UNCHANGED <<fetch, db>>

\* One iteration of the loop of populate_demands_in_csv: a blank line is
\* skipped; hub, dst, _ = line.split(',') raises ValueError unless the line
\* has three fields.
PopulateDemandsRow ==
    /\ batch.fn = "populate_demands_in_csv"
    /\ batch.pc = "loop"
    /\ batch.i < Len(files.routes.lines)
    /\ LET line == files.routes.lines[batch.i + 1]
       IN  IF line = <<>>
           THEN /\ batch' = [batch EXCEPT !.i = @ + 1]
                /\ UNCHANGED files
           ELSE IF Len(line) # 3
           THEN /\ batch' = [batch EXCEPT !.pc = "raised", !.exc = "ValueError"]
                /\ UNCHANGED files
           ELSE LET r == Route(line[1], line[2])
                IN  IF Raised(r)
                    THEN /\ batch' = [batch EXCEPT !.pc = "raised", !.exc = r.exc]
                         /\ UNCHANGED files
                    ELSE \E w \in BatchWorldSet :
                         LET t == get_approximate_pax_demand(r, w, batch.month, routes_csv)
                         IN  IF Raised(t)
                             THEN /\ batch' = [batch EXCEPT !.pc = "raised", !.exc = t.exc,
                                                            !.estimated = @ + 1]
                                  /\ UNCHANGED files
                             ELSE /\ files' = [files EXCEPT !.tmp.lines = Append(@, line \o t.triple)]
                                  /\ batch' = [batch EXCEPT !.estimated = @ + 1, !.i = @ + 1]
    /\ EstimatorIdle
    /\ UNCHANGED <<fetch, db>>

\* move(temp_file, routes_csv) in a finally clause: also after an exception.
PopulateDemandsFinish_in_finally ==
    /\ batch.fn = "populate_demands_in_csv"
    /\ \/ batch.pc = "loop" /\ batch.i = Len(files.routes.lines)
       \/ batch.pc = "raised"
    /\ files.tmp # None
    /\ batch' = [batch EXCEPT !.pc = IF batch.pc = "loop" THEN "done" ELSE @]
    /\ files' = [files EXCEPT !.routes = files.tmp, !.tmp = None]
    /\ EstimatorIdle
    /\ UNCHANGED <<fetch, db>>

\* After the loop of populate_demands_in_csv: both files are closed and
\* move(temp_file, routes_csv) replaces the routes file.
PopulateDemandsFinish ==
    /\ batch.fn = "populate_demands_in_csv"
    /\ batch.pc = "loop" /\ batch.i = Len(files.routes.lines)
    /\ files.tmp # None
    /\ batch' = [batch EXCEPT !.pc = "done"]
    /\ files' = [files EXCEPT !.routes = files.tmp, !.tmp = None]
    /\ EstimatorIdle
    /\ UNCHANGED <<fetch, db>>

NextBatch ==
    \/ PopulateRoutesStart
    \/ PopulateRoutesRow
    \/ PopulateRoutesFinish
    \/ PopulateDemandsStart
    \/ PopulateDemandsRow
    \/ PopulateDemandsFinish

SpecBatch == InitBatch /\ [][NextBatch]_vars

(***************************************************************************)
(* code/worldbank.py and code/wb_helpers.py: the generators                *)
(* fetch_all_indicators.  Both are run on the same responses.  A response  *)
(* is its status code and its body; a body is JSON or not, the JSON a      *)
(* sequence, a JSON object a record.  The page requested is carried up to  *)
(* MaxPage: the pages from MaxPage on are not told apart.                   *)
(***************************************************************************)
MaxPage == 3    \* page numbers and page counts of the provider run from 1 to MaxPage

MAX_SOURCE_ID == 89

NotJson == [json |-> FALSE, data |-> <<>>]
Json(data) == [json |-> TRUE, data |-> data]
Indicators == <<"indicator">>

\* What the provider may answer to a request.
ResponseSet ==
    {[status_code |-> 404, body |-> NotJson],
     [status_code |-> 200, body |-> NotJson],
     [status_code |-> 200, body |-> Json(<<[message |-> "error"]>>)],
     [status_code |-> 200, body |-> Json(<<[total |-> 1], Indicators>>)],
     [status_code |-> 200, body |-> Json(<<[page |-> 1], Indicators>>)]}
    \cup {[status_code |-> 200, body |-> Json(<<[page |-> p, pages |-> q], page_data>>)] :
            p \in 1..MaxPage, q \in 1..MaxPage, page_data \in {<<>>, Indicators}}

\* page += 1
NextPage(page) == IF page < MaxPage THEN page + 1 ELSE MaxPage

\* A generator at the request of page 1 of source 1.
NewGenerator == [pc |-> "get", source |-> 1, page |-> 1, out |-> <<>>, exc |-> "none"]

\* break, then source += 1 and the test of the outer loop.
NextSource(g, out) ==
    IF g.source + 1 <= MAX_SOURCE_ID
    THEN [pc |-> "get", source |-> g.source + 1, page |-> 1, out |-> out, exc |-> "none"]
    ELSE [pc |-> "done", source |-> g.source + 1, page |-> 1, out |-> out, exc |-> "none"]

\* The rest of an iteration of the inner loop, the same in both modules: the
\* page is yielded unless it is empty, then the counters are compared.
AfterPage(g, data) ==
    LET page_info == data[1]
        page_data == data[2]
        yielded == IF page_data # <<>> THEN <<page_data>> ELSE <<>>
    IN  IF "pages" \notin DOMAIN page_info
        THEN [g EXCEPT !.pc = "raised", !.exc = "KeyError", !.out = yielded]
        ELSE IF page_info.page >= page_info.pages
        THEN NextSource(g, yielded)
        ELSE [g EXCEPT !.page = NextPage(@), !.out = yielded]

\* worldbank.fetch_all_indicators from one request to the next; out is the
\* sequence of the pages yielded on the way; response.json() raises a
\* ValueError on a body that is not JSON.
worldbank_fetch_all_indicators(g, response) ==
    IF response.status_code # 200 THEN NextSource(g, <<>>)
    ELSE IF ~response.body.json
    THEN [g EXCEPT !.pc = "raised", !.exc = "JSONDecodeError", !.out = <<>>]
    ELSE LET data == response.body.data
         IN  IF Len(data) # 2 \/ "page" \notin DOMAIN data[1]
             THEN NextSource(g, <<>>)
             ELSE AfterPage(g, data)

\* wb_helpers.get_data_for_url: the data, {} (here <<>>) for an HTTP error or
\* an unexpected structure, or the exception of response.json().
get_data_for_url(response) ==
    IF response.status_code # 200 THEN [data |-> <<>>]
    ELSE IF ~response.body.json THEN Raise("JSONDecodeError")
    ELSE LET data == response.body.data
         IN  IF Len(data) # 2 \/ "page" \notin DOMAIN data[1]
             THEN [data |-> <<>>]
             ELSE [data |-> data]

\* wb_helpers.fetch_all_indicators from one request to the next.
wb_helpers_fetch_all_indicators(g, response) ==
    LET got == get_data_for_url(response)
    IN  IF Raised(got) THEN [g EXCEPT !.pc = "raised", !.exc = got.exc, !.out = <<>>]
        ELSE IF got.data = <<>> THEN NextSource(g, <<>>)
        ELSE AfterPage(g, got.data)

NoResponse == [status_code |-> 0, body |-> NotJson]

InitFetch ==
    /\ call = NoCall
    /\ pc = "Uninitialized"
    /\ routes_csv = <<>>
    /\ args = None
    /\ route = None
    /\ world = None
    /\ lookups = NoLookups
    /\ stats = None
    /\ demand = None
    /\ result = None
    /\ batch = NoBatch
    /\ files = NoFiles
    /\ fetch = NoFetch
    /\ db = NoDb

\* fetch_all_indicators() of both modules: the generators are created.
FetchStart ==
    /\ fetch = NoFetch
    /\ fetch' = [worldbank |-> NewGenerator, wb_helpers |-> NewGenerator,
                 response |-> NoResponse]
    /\ EstimatorIdle
    /\ UNCHANGED <<batch, files, db>>

\* Both generators make their next request and get the same response.
FetchStep ==
    /\ fetch # NoFetch
    /\ fetch.worldbank.pc = "get"
    /\ fetch.wb_helpers.pc = "get"
    /\ \E response \in ResponseSet :
        fetch' = [worldbank |-> worldbank_fetch_all_indicators(fetch.worldbank, response),
                  wb_helpers |-> wb_helpers_fetch_all_indicators(fetch.wb_helpers, response),
                  response |-> response]
    /\ EstimatorIdle
    /\ UNCHANGED <<batch, files, db>>

NextFetch ==
    \/ FetchStart
    \/ FetchStep

SpecFetch == InitFetch /\ [][NextFetch]_vars

\* The consumer of the generators keeps asking for the next page.
FairSpecFetch == SpecFetch /\ WF_vars(NextFetch)

(***************************************************************************)
(* code/database_population.py: Database.import_csv on one table.  The     *)
(* table is the sequence of its rows in the order of their insertion, as   *)
(* the connection of the Database object sees it; a line of the CSV file   *)
(* is the tuple of its fields, strings; a value of a row is a record that  *)
(* keeps its type: [int |-> n], [str |-> s] or [null |-> TRUE].  Lines     *)
(* with an empty first field are not among the inputs: what the table does *)
(* with a NULL key is decided by its schema.                               *)
(***************************************************************************)
MaxImports == 2     \* import_csv is called at most MaxImports times on the file
MaxLines == 3       \* a CSV file has at most MaxLines lines after its header

CsvLineSet ==
    {<<"7", "x">>, <<"007", "y">>, <<"A", "x">>, <<"A", "y">>, <<"7">>, <<"A", "x", "y">>}
CsvFileSet ==
    {[header |-> <<"id", "name">>, lines |-> f] :
        f \in UNION {[1..n -> CsvLineSet] : n \in 0..MaxLines}}
TableSet == {<<>>, << <<[int |-> 7], [str |-> "z"]>> >>}

\* value.isdigit() and int(value) on the strings of the model.
isdigit(value) == value \in {"7", "007"}
int(value) == CASE value \in {"7", "007"} -> 7

\* None if value == '' else (int(value) if value.isdigit() else value)
ConvertValue(value) ==
    IF value = "" THEN [null |-> TRUE]
    ELSE IF isdigit(value) THEN [int |-> int(value)]
    ELSE [str |-> value]

\* check_if_primary_key_exists answering False whatever the table holds.
check_if_primary_key_exists_never(rows, pk_value) == FALSE

\* SELECT EXISTS(SELECT 1 FROM table WHERE pk_column = pk_value) on the rows
\* of the table.
check_if_primary_key_exists(rows, pk_value) ==
    \E k \in DOMAIN rows : rows[k][1] = pk_value

\* process_line on the rows of the table: the rows after it and the value
\* returned.
process_line(rows, line, expected_length) ==
    LET values == [k \in DOMAIN line |-> ConvertValue(line[k])]
    IN  IF Len(line) = expected_length
        THEN IF ~check_if_primary_key_exists(rows, values[1])
             THEN [rows |-> Append(rows, values), added |-> TRUE]
             ELSE [rows |-> rows, added |-> FALSE]
        ELSE [rows |-> rows, added |-> FALSE]

InitDb ==
    /\ call = NoCall
    /\ pc = "Uninitialized"
    /\ routes_csv = <<>>
    /\ args = None
    /\ route = None
    /\ world = None
    /\ lookups = NoLookups
    /\ stats = None
    /\ demand = None
    /\ result = None
    /\ batch = NoBatch
    /\ files = NoFiles
    /\ fetch = NoFetch
    /\ \E rows \in TableSet, file \in CsvFileSet :
        db = [table |-> rows, committed |-> Len(rows), file |-> file, pc |-> "idle",
              imports |-> 0, i |-> 0, expected_length |-> 0, data_added |-> FALSE,
              report |-> "none"]

\* import_csv up to the loop: the header is read and split.
ImportStart ==
    /\ db # NoDb
    /\ \/ db.pc = "idle"
       \/ db.pc = "done" /\ db.imports < MaxImports
    /\ db' = [db EXCEPT !.pc = "lines", !.imports = @ + 1, !.i = 0,
                        !.expected_length = Len(db.file.header),
                        !.data_added = FALSE, !.report = "none"]
    /\ EstimatorIdle
    /\ UNCHANGED <<batch, files, fetch>>

\* One iteration of the loop of import_csv.
ImportLine ==
    /\ db # NoDb
    /\ db.pc = "lines"
    /\ db.i < Len(db.file.lines)
    /\ LET processed == process_line(db.table, db.file.lines[db.i + 1], db.expected_length)
       IN  db' = [db EXCEPT !.table = processed.rows,
                            !.data_added = processed.added \/ @,
                            !.i = @ + 1]
    /\ EstimatorIdle
    /\ UNCHANGED <<batch, files, fetch>>

\* After the loop: self.db.commit() and the message printed.
ImportFinish ==
    /\ db # NoDb
    /\ db.pc = "lines"
    /\ db.i = Len(db.file.lines)
    /\ db' = [db EXCEPT !.pc = "done", !.committed = Len(db.table),
                        !.report = IF db.data_added THEN "Data added to"
                                   ELSE "Nothing to change in"]
    /\ EstimatorIdle
    /\ UNCHANGED <<batch, files, fetch>>

NextDb ==
    \/ ImportStart
    \/ ImportLine
    \/ ImportFinish

SpecDb == InitDb /\ [][NextDb]_vars

(***************************************************************************)
(* The claims.                                                             *)
(***************************************************************************)
PairOf(t) == <<t[1], t[2]>>
MaxOf(t) == Max2(t[1], t[2])

\* The seasonality factor the specification gives a month, in halves.
SpecSeasonality(m) == IF m \in {1, 2} THEN 1 ELSE IF m \in {6, 7, 8, 12} THEN 3 ELSE 2

\* C1: for every month 1..12, _get_seasonality_factor of demand_functions and
\* PassengerDemand's seasonality method both return 0.5 for months 1 and 2,
\* 1.5 for months 6, 7, 8 and 12, and 1.0 for every other month (the month is
\* all either reads of the date).
C1_SeasonalityByMonth ==
    call.fn \in {"_get_seasonality_factor", "PassengerDemand.get_seasonality_factor"}
        => call.ret = SpecSeasonality(call.args.month)

C1_Witness ==
    /\ call.fn = "PassengerDemand.get_seasonality_factor"
    /\ call.args.month = 12
    /\ call.ret = 3

\* n is the float r (carried at scale) truncated: n <= r < n + 1.
Truncated(r, scale, n) == n * scale <= r /\ r < (n + 1) * scale

\* C2: each of the three values Route.get_approximate_pax_demand returns is
\* its raw per-class demand truncated toward zero: for a non-negative raw
\* demand r the result n satisfies n <= r < n + 1.
C2_Truncation ==
    pc = "Done" =>
        /\ demand.fcd >= 0 => Truncated(demand.fcd, RawHundredthScale, result.triple[1])
        /\ demand.bcd >= 0 => Truncated(demand.bcd, RawHundredthScale, result.triple[2])
        /\ demand.ecd >= 0 => Truncated(demand.ecd, RawTenthScale, result.triple[3])

\* Three non-negative raw demands, the economy one at least 12 with a
\* fractional part of at least one half.
C2_Witness ==
    /\ pc = "Done"
    /\ demand.fcd >= 0
    /\ demand.bcd >= 0
    /\ demand.ecd >= 0
    /\ result.triple[3] >= 12
    /\ 2 * (demand.ecd % RawTenthScale) >= RawTenthScale

\* The valid ranges of the multipliers' arguments.
ValidGdps(a) == a.gdps[1] > 0 /\ a.gdps[2] > 0 /\ a.plis[1] > 0 /\ a.plis[2] > 0
ValidTe(a) == MaxOf(a.tourism_expenditures) > 0
ValidPop(a) == MaxOf(a.populations) > 0

\* C3: for all inputs in valid ranges the class multipliers of
\* demand_functions satisfy first-class in [0, 0.05], business-class in
\* [0, 0.15], economy-class in [0, 1.6].
C3_ClassMultiplierBounds ==
    /\ (call.fn = "_get_first_class_multiplier" /\ ValidGdps(call.args))
            => IsNumber(call.ret) /\ 0 <= call.ret /\ call.ret <= 5 * Unit
    /\ (call.fn = "_get_business_class_multiplier" /\ ValidGdps(call.args)
            /\ ValidTe(call.args))
            => IsNumber(call.ret) /\ 0 <= call.ret /\ call.ret <= 15 * Unit
    /\ (call.fn = "_get_economy_class_multiplier" /\ ValidPop(call.args))
            => IsNumber(call.ret) /\ 0 <= call.ret /\ call.ret <= 16 * Unit

\* The economy-class multiplier reaches 1.6.
C3_Witness ==
    /\ call.fn = "_get_economy_class_multiplier"
    /\ ValidPop(call.args)
    /\ call.ret = 16 * Unit

C5_EconomyAtMost08 ==
    /\ (call.fn = "_get_economy_class_multiplier" /\ ValidPop(call.args))
            => 0 <= call.ret /\ call.ret <= 8 * Unit
    /\ (call.fn = "PassengerDemand.get_economy_class_multiplier" /\ ValidPop(call.args.stats))
            => 0 <= call.ret /\ call.ret <= 8 * Unit

\* The four factors of demand_functions on the arguments a of a call.
FactorsOf(a) ==
    <<compute_population_factor(PairOf(a.stats.populations), a.stats.populations[4]),
      compute_economic_factor(PairOf(a.stats.gdps), PairOf(a.stats.plis)),
      compute_tourism_factor(PairOf(a.stats.tourism_expenditures),
                             a.stats.tourism_expenditures[4]),
      compute_distance_factor(a.distance)>>

InUnitInterval(x) == IsNumber(x) /\ 0 <= x /\ x <= Unit

\* Each of the four factors on the arguments a lies in [0, 1].
FactorsInUnitInterval(a) ==
    LET f == FactorsOf(a)
    IN  \A i \in 1..4 : InUnitInterval(f[i])

\* C6: whenever each of the four factors lies in [0, 1], the composite score
\* lies in [0, 1] and the base demand in [0, 10000]; the four weights are
\* non-negative and sum to exactly 1.
C6_CompositeBounds ==
    /\ (call.fn = "__compute_composite_score"
            /\ FactorsInUnitInterval(call.args))
            => IsNumber(call.ret) /\ 0 <= call.ret /\ call.ret <= ScoreScale
    /\ (call.fn = "_compute_base_demand"
            /\ FactorsInUnitInterval(call.args))
            => IsNumber(call.ret) /\ 0 <= call.ret /\ call.ret <= DEMAND_SCALING_FACTOR
    /\ WEIGHT_PF >= 0 /\ WEIGHT_EF >= 0 /\ WEIGHT_TF >= 0 /\ WEIGHT_DF >= 0
    /\ WEIGHT_PF + WEIGHT_EF + WEIGHT_TF + WEIGHT_DF = WeightScale

\* A base demand above 9000 from four factors in [0, 1].
C6_Witness ==
    /\ call.fn = "_compute_base_demand"
    /\ FactorsInUnitInterval(call.args)
    /\ call.ret > 9000

\* The four factors of the route's estimation all lie in [0, 1].
RouteFactorsInUnitInterval ==
    /\ InUnitInterval(demand.pf)
    /\ InUnitInterval(demand.ef)
    /\ InUnitInterval(demand.tf)
    /\ InUnitInterval(demand.df)

\* C7, as claimed: the composite score Route.get_approximate_pax_demand uses
\* is 0.3*PF + 0.4*EF + 0.2*TF + 0.1*DF, the weights of demand_functions
\* (stated here for the estimations whose four factors lie in [0, 1]).
C7_CanonicalWeights ==
    (pc \in {"ScoresComputed", "Done"} /\ RouteFactorsInUnitInterval)
        => demand.composite = WeightedSum(demand.pf, demand.ef, demand.tf, demand.df)

\* C8, as claimed: the returned triple is (trunc(B*S*M_first),
\* trunc(B*S*M_business), trunc(B*S*M_economy)) with M_first = EF*0.05,
\* M_business = EF*0.08 + TF*0.07, M_economy = (PF + DF)*0.8 (stated here for
\* the estimations whose four factors lie in [0, 1]).
C8_TripleFormula ==
    (pc = "Done" /\ RouteFactorsInUnitInterval) =>
        LET bs == demand.base * demand.sf
        IN  result.triple =
                <<PyInt(bs * (demand.ef * 5), RawHundredthScale),
                  PyInt(bs * (demand.ef * 8 + demand.tf * 7), RawHundredthScale),
                  PyInt(bs * ((demand.pf + demand.df) * 8), RawTenthScale)>>

\* C9, as claimed: every factor returns a value in [0, 1] for all inputs whose
\* pair maximum is greater than 0, in demand_functions and in PassengerDemand.
C9_FactorsInUnitInterval ==
    /\ (call.fn = "__compute_population_factor" /\ ValidPop(call.args))
            => InUnitInterval(call.ret)
    /\ (call.fn = "__compute_economic_factor" /\ MaxOf(call.args.gdps) > 0)
            => InUnitInterval(call.ret)
    /\ (call.fn = "__compute_tourism_factor" /\ ValidTe(call.args))
            => InUnitInterval(call.ret)
    /\ call.fn = "__compute_distance_factor" => InUnitInterval(call.ret)
    /\ (call.fn = "PassengerDemand.__compute_population_factor" /\ ValidPop(call.args.stats))
            => InUnitInterval(call.ret)
    /\ (call.fn = "PassengerDemand.__compute_economic_factor"
            /\ MaxOf(call.args.stats.gdps) > 0)
            => InUnitInterval(call.ret)
    /\ (call.fn = "PassengerDemand.__compute_tourism_factor" /\ ValidTe(call.args.stats))
            => InUnitInterval(call.ret)
    /\ call.fn = "PassengerDemand.__compute_distance_factor" => InUnitInterval(call.ret)

\* C10, as claimed: when both populations are zero the population factor is 0,
\* and when both tourism expenditures are zero the tourism factor is 0.
C10_ZeroFloor ==
    /\ (call.fn = "__compute_population_factor" /\ MaxOf(call.args.populations) = 0)
            => call.ret = 0
    /\ (call.fn = "PassengerDemand.__compute_population_factor"
            /\ MaxOf(call.args.stats.populations) = 0)
            => call.ret = 0
    /\ (call.fn = "__compute_tourism_factor" /\ MaxOf(call.args.tourism_expenditures) = 0)
            => call.ret = 0
    /\ (call.fn = "PassengerDemand.__compute_tourism_factor"
            /\ MaxOf(call.args.stats.tourism_expenditures) = 0)
            => call.ret = 0

\* The GDPs and PLIs an economic-factor call c was given.
EconomicArgs(c) ==
    IF c.fn = "__compute_economic_factor"
    THEN [gdps |-> c.args.gdps, plis |-> c.args.plis]
    ELSE [gdps |-> PairOf(c.args.stats.gdps), plis |-> PairOf(c.args.stats.plis)]

\* (ESR + 1e-5) / (1 + ESR + 1e-5) for ESR = (gdp_i/pli_i) / (gdp_j/pli_j),
\* gdp_j > 0, as a float.
SpecEconomicFactor(a) ==
    LET n == a.gdps[1] * a.plis[2]
        d == a.plis[1] * a.gdps[2]
    IN  DivFix(100000 * n + d, 100000 * d + 100000 * n + d)

\* C11, as claimed: for non-negative GDPs and positive PLIs the economic factor
\* of demand_functions and of PassengerDemand raises no division by zero, a
\* destination GDP of 0 included, and equals (ESR + 1e-5) / (1 + ESR + 1e-5)
\* with ESR = (gdp_i/pli_i) / (gdp_j/pli_j).
C11_EconomicFactorEpsilon ==
    call.fn \in {"__compute_economic_factor", "PassengerDemand.__compute_economic_factor"}
        => /\ call.ret # ZeroDivisionError
           /\ EconomicArgs(call).gdps[2] > 0 => call.ret = SpecEconomicFactor(EconomicArgs(call))

\* The hub of the codes c has a row in the destinations data and a position.
HubResolvable(c) ==
    c.hub_icao \in load_airport_data /\ c.hub_icao \in DOMAIN load_airports_positions

\* The destination of the codes c lacks a row in the destinations data or a
\* position in the airport database.
DestUnresolvable(c) ==
    c.dest_icao \notin load_airport_data \/ c.dest_icao \notin DOMAIN load_airports_positions

\* C12, as claimed: Route(hub, dest) with a destination that cannot be
\* resolved, in either way, fails with the ValueError 'No such airport', and
\* leaves no Route object and no distance computed.
C12_NoSuchAirport ==
    (args # None /\ HubResolvable(args) /\ DestUnresolvable(args))
        => /\ pc = "Failed"
           /\ result.exc = "ValueError"
           /\ route = None
           /\ lookups.gc_distance = 0

\* A Route object has been constructed.
Constructed == route # None /\ "distance" \in DOMAIN route

\* C13, as claimed: every constructed Route has distance > 0, a destination
\* equal to the hub included.
C13_PositiveDistance == Constructed => route.distance > 0

\* C14, as claimed: over the calls of get_approximate_pax_demand on one Route
\* the distance is computed once and every indicator of each endpoint is
\* looked up once.
C14_FetchedOnce ==
    /\ lookups.gc_distance <= 1
    /\ lookups.population <= 2
    /\ lookups.gdp <= 2
    /\ lookups.pli <= 2
    /\ lookups.tourism_expenditure <= 2

\* A population or a GDP is absent from the answers w: GeoNames has no result
\* or the request failed, or the World Bank's value is null.
PopulationOrGdpAbsent(w) ==
    \E k \in 1..2 :
        \/ w.population[k].status # "ok"
        \/ w.population[k].totalResultsCount = 0
        \/ w.gdp[k][2][1].value = PyNone

\* Every lookup of the answers w gives a value.
AllAnswered(w) ==
    /\ ~PopulationOrGdpAbsent(w)
    /\ \A k \in 1..2 : /\ w.indicators[k].pli # PyNone
                       /\ w.indicators[k].tourism_expenditure # PyNone

\* C15: when the population lookup or the GDP of an endpoint gives no value,
\* the estimation has aborted with an error: no stats, no scores and no
\* triple exist, so no default stood in for the missing value.
C15_AbsenceAborts ==
    (world # None /\ PopulationOrGdpAbsent(world))
        => /\ pc = "Failed"
           /\ result.exc = "TypeError"
           /\ result.triple = <<>>
           /\ stats = None
           /\ demand = None

\* An estimation aborted because GeoNames found no city.
C15_Witness ==
    /\ world # None
    /\ \E k \in 1..2 : world.population[k] = GeoNamesNotFound
    /\ pc = "Failed"
    /\ result.exc = "TypeError"

\* C16, as claimed: the airports are resolved before the distance, the
\* distance before any indicator lookup, the four indicator tuples before any
\* score, Done holds a triple of three integers, and an estimation whose
\* airports resolve and whose lookups all give a value does not fail.
C16_StateOrder ==
    /\ lookups.gc_distance > 0 => route # None
    /\ world # None => lookups.gc_distance > 0
    /\ demand # None
        => /\ stats # None
           /\ DOMAIN stats = {"populations", "gdps", "plis", "tourism_expenditures"}
    /\ pc = "Done" => /\ demand # None
                      /\ result.triple \in Seq(Int)
                      /\ Len(result.triple) = 3
    /\ pc = "Failed" => ~(Constructed /\ world # None /\ AllAnswered(world))

\* The distance d lies in the range of the distances of the routes file f.
InRange(d, f) ==
    get_min_and_max_distances(f)[1] <= d /\ d <= get_min_and_max_distances(f)[2]

\* The triple the estimation in progress returns when the routes file is f.
TripleWith(f) ==
    LET d == route.distance
        seasonal == Times(PD_compute_base_demand(stats, d, f), demand.sf)
    IN  <<PyInt(Times(seasonal, PD_get_first_class_multiplier(stats)), RawHundredthScale),
          PyInt(Times(seasonal, PD_get_business_class_multiplier(stats)), RawHundredthScale),
          PyInt(Times(seasonal, PD_get_economy_class_multiplier(stats, d, f)), RawTenthScale)>>

\* C17, as claimed: the triple returned for a route depends only on its
\* distance, its indicator values and the date, so it is the same whatever
\* other routes the routes data holds (stated here for the routes files whose
\* range of distances contains the route's).
C17_IndependentOfOtherRoutes ==
    (pc = "Done" /\ InRange(route.distance, routes_csv))
        => \A f \in RoutesFileSet :
                InRange(route.distance, f) => result.triple = TripleWith(f)

\* Factor values between 0 and 1.
FactorGrid == {0, Unit \div 4, Unit \div 2, 3 * (Unit \div 4), Unit}

\* _compute_base_demand as a function of the four factors f.
BaseDemandOf(f) == WeightedSum(f[1], f[2], f[3], f[4]) * (DEMAND_SCALING_FACTOR \div ScoreScale)

\* C18: the base demand is the scaled weighted sum of the four factors, and
\* raising the population factor, the economic factor or the tourism factor,
\* the other three held fixed, does not lower it.
C18_MonotoneInFactors ==
    (call.fn = "_compute_base_demand" /\ IsNumber(call.ret))
        => LET f == FactorsOf(call.args)
           IN  /\ call.ret = BaseDemandOf(f)
               /\ \A i \in 1..3 : \A x \in FactorGrid :
                    x >= f[i] => BaseDemandOf([f EXCEPT ![i] = x]) >= call.ret

\* A base demand that a tourism factor of 1, the others fixed, strictly raises.
C18_Witness ==
    /\ call.fn = "_compute_base_demand"
    /\ IsNumber(call.ret)
    /\ FactorsOf(call.args)[3] < Unit
    /\ BaseDemandOf([FactorsOf(call.args) EXCEPT ![3] = Unit]) > call.ret

\* C19, as claimed: with the statistics fixed, _compute_base_demand strictly
\* increases with the distance up to 1000 km and strictly decreases with it
\* from 1000 km on (stated here for the distances from 100 km on, whose
\* distance factors the digits carried tell apart).
C19_StrictlyUnimodalBaseDemand ==
    (call.fn = "_compute_base_demand" /\ IsNumber(call.ret) /\ call.args.distance >= 100)
        => \A d2 \in DistanceSet :
            LET d1 == call.args.distance
                base2 == compute_base_demand(d2, call.args.stats)
            IN  /\ (d1 < d2 /\ d2 <= 1000) => call.ret < base2
                /\ (1000 <= d1 /\ d1 < d2) => call.ret > base2

\* C20, as claimed: DF(1000) = 1, DF(d) is in [0, 1], DF(1000) >= DF(100),
\* DF(1000) >= DF(10000), and the density ratio without the clamp is nowhere
\* above its value at 1000 km.
C20_PeakAtReferenceScale ==
    call.fn = "__compute_distance_factor"
        => /\ compute_distance_factor(1000) = Unit
           /\ InUnitInterval(call.ret)
           /\ compute_distance_factor(1000) >= compute_distance_factor(100)
           /\ compute_distance_factor(1000) >= compute_distance_factor(10000)
           /\ LognormPdf(call.args.distance) <= LognormPdf(1000)

\* pi * earth_radius_km in whole kilometres, rounded down.
PiEarthRadiusKm == 20037

\* C21: for all valid coordinates A and B, gc_distance(A, B) =
\* gc_distance(B, A), gc_distance(A, A) = 0, the distance is a number of
\* kilometres from 0 to pi * 6378.1, and no call fails.
C21_GreatCircleMetric ==
    call.fn = "gc_distance"
        => LET a == call.args.airport_coords1
               b == call.args.airport_coords2
           IN  /\ IsNumber(call.ret)
               /\ call.ret = gc_distance_sphere(b, a)
               /\ gc_distance_sphere(a, a) = 0
               /\ gc_distance_sphere(b, b) = 0
               /\ 0 <= call.ret
               /\ call.ret <= PiEarthRadiusKm

\* Two points of different latitudes and longitudes, neither on a pole, and
\* a pair of antipodes.
C21_Witness ==
    /\ call.fn = "gc_distance"
    /\ \/ /\ call.args.airport_coords1 = <<2, -4>>
          /\ call.args.airport_coords2 = <<0, 2>>
          /\ call.ret > 0
          /\ call.ret < PiEarthRadiusKm
       \/ /\ call.args.airport_coords1 = <<2, -4>>
          /\ call.args.airport_coords2 = <<-2, 2>>
          /\ call.ret = PiEarthRadiusKm

\* C22: populate_routes_in_csv invokes the estimator once for every data row
\* of the destinations file and writes exactly one route line per row, in
\* file order, whatever the number of rows.
C22_EveryRowProcessed ==
    (batch.fn = "populate_routes_in_csv" /\ batch.pc = "done")
        => /\ batch.estimated = Len(files.destinations.lines)
           /\ Len(files.routes.lines) = Len(files.destinations.lines)
           /\ \A k \in DOMAIN files.routes.lines :
                files.routes.lines[k][2] = files.destinations.lines[k][1]

KeysOf(rows) == {rows[k][1] : k \in DOMAIN rows}

NonBlank(line) == line # <<>>

\* C26: populate_demands_in_csv changes the routes file only by the move
\* that follows the loop, when every line has been read and every non-blank
\* line estimated and written to the temporary file; the new file then holds
\* every original non-blank line, in order, followed by its three demands.
\* After an exception the routes file is the original one.
C26_ReplacedOnlyWhenComplete ==
    [][(batch.fn = "populate_demands_in_csv" /\ files'.routes # files.routes)
        => LET original == SelectSeq(files.routes.lines, NonBlank)
               replaced == files'.routes.lines
           IN  /\ batch.pc = "loop"
               /\ batch'.pc = "done"
               /\ batch.i = Len(files.routes.lines)
               /\ batch.estimated = Len(original)
               /\ files'.routes.header = files.routes.header \o DemandColumns
               /\ Len(replaced) = Len(original)
               /\ \A k \in DOMAIN replaced :
                    /\ Len(replaced[k]) = Len(original[k]) + 3
                    /\ SubSeq(replaced[k], 1, Len(original[k])) = original[k]]_vars

\* The second line of a routes file fails after the first was written to the
\* temporary file, and the routes file still has its three columns and its
\* lines.
C26_Witness ==
    /\ batch.fn = "populate_demands_in_csv"
    /\ batch.pc = "raised"
    /\ files.tmp # None
    /\ Len(files.tmp.lines) = 1
    /\ Len(files.routes.lines) >= 2
    /\ Len(files.routes.header) = 3

Terminated(g) == g.pc \in {"done", "raised"}

\* C23: fetch_all_indicators terminates, whatever the provider answers: an
\* HTTP error, a malformed body or a well-formed page with its counters.
C23_FetchTerminates ==
    <>(fetch # NoFetch /\ Terminated(fetch.worldbank) /\ Terminated(fetch.wb_helpers))

WellFormed(response) ==
    /\ response.status_code = 200
    /\ response.body.json
    /\ Len(response.body.data) = 2
    /\ {"page", "pages"} \subseteq DOMAIN response.body.data[1]

\* The request that follows the request of g: the first page of the next
\* source, or none after the last source.
AtNextSource(g, h) ==
    /\ h.source = g.source + 1
    /\ h.page = 1
    /\ h.pc = IF g.source < MAX_SOURCE_ID THEN "get" ELSE "done"

\* C24: the sources are visited in increasing order from 1 to MAX_SOURCE_ID,
\* the pages of a source in increasing order from 1; an HTTP error or a
\* malformed response leads to the first page of the next source; no empty
\* page is yielded; and both modules yield the same pages.
C24_SourcesInOrder ==
    [][fetch # NoFetch
        => LET g == fetch.worldbank
               h == fetch'.worldbank
               response == fetch'.response
           IN  /\ fetch'.wb_helpers = h
               /\ g.source \in 1..MAX_SOURCE_ID
               /\ g.pc = "get"
               /\ \/ AtNextSource(g, h)
                  \/ h.pc = "get" /\ h.source = g.source /\ h.page = NextPage(g.page)
               /\ ~WellFormed(response) => AtNextSource(g, h) /\ h.out = <<>>
               /\ \A k \in DOMAIN h.out : h.out[k] # <<>>
               /\ (WellFormed(response) /\ response.body.data[2] # <<>>)
                    => h.out = <<response.body.data[2]>>]_vars

====
